---- MODULE Spec2Model ----
(***************************************************************************)
(* Model of the subscription-driven monitoring engine of                   *)
(* BondingCurveMonitorBot (src/main.py) and of the metric calculator of    *)
(* BitqueryClient (src/bitquery_client.py).                                *)
(*                                                                         *)
(* Scheduling.  Everything runs on one asyncio event loop, so code between *)
(* two awaits is one atomic step.  The Application is built with the       *)
(* builder's defaults (main.py:27) and the handlers are registered with    *)
(* CommandHandler's defaults (main.py:36-44): updates are processed one at *)
(* a time, so at most one command handler is in flight; it is suspended at *)
(* its awaits, where the poller tasks created with asyncio.create_task     *)
(* (main.py:229) run.                                                      *)
(*                                                                         *)
(* Numbers.  Balances are counted in units of 100 000 tokens, which        *)
(* divides 206 900 000 and 793 100 000, so every quotient is unchanged.    *)
(* A progress value p percent is held as the exact numerator p * 7931;     *)
(* thresholds are held in tenths of a percent (99.5 is 995).               *)
(***************************************************************************)
EXTENDS Integers, Sequences, FiniteSets, TLC

\* ------------------------------------------------------------------ bounds
MaxTasks == 2        \* task objects alive at once (running or being cancelled)
MaxClock == 2        \* writes of token_data (values of datetime.now())

\* ------------------------------------------------------- inputs of the run
Users == {1, 2}
Tokens == {"So1anaTokenMintAddressOfLength32to44"}
BadAddress == "short"
Addresses == Tokens \cup {BadAddress}
Prices == {3}
Balances == {8000, 5000, 3100, 2386}      \* 63.0 %, 87.0 %, 96.0 %

\* ------------------------------------------------------ program constants
RESERVED_TOKENS == 2069
INITIAL_REAL_TOKEN_RESERVES == 7931
MIN_ADDRESS_LEN == 32
MAX_ADDRESS_LEN == 44
BONDING_PHASE_MIN == 80
SLEEP_NORMAL == 15
SLEEP_ERROR == 30
bonding_thresholds == <<850, 900, 950, 980, 990, 995>>
BONDING_CURVE_ALERT_THRESHOLDS == <<500, 750, 900, 950, 990>>

\* ----------------------------------------------------------------- helpers
Min(S) == CHOOSE x \in S : \A y \in S : x <= y

With(f, k, v) == [x \in (DOMAIN f) \cup {k} |-> IF x = k THEN v ELSE f[x]]

Without(f, k) == [x \in (DOMAIN f) \ {k} |-> f[x]]

EmptyDict == [x \in {} |-> {}]

AddressLen(a) == Len(a)

ValidAddress(a) == ~(AddressLen(a) < MIN_ADDRESS_LEN \/ AddressLen(a) > MAX_ADDRESS_LEN)

alert_key(threshold) == <<"bonding_", threshold>>

KeysOf(thresholds) == {alert_key(thresholds[k]) : k \in 1..Len(thresholds)}

\* variant: the formula of the docstring alone, with neither the test for a
\* balance at or under the reserve nor the clamp
calculate_bonding_curve_progress_formula_only(balance) ==
    100 * INITIAL_REAL_TOKEN_RESERVES - (balance - RESERVED_TOKENS) * 100

\* variant: the result is not clamped
calculate_bonding_curve_progress_unclamped(balance) ==
    IF balance <= RESERVED_TOKENS
    THEN 100 * INITIAL_REAL_TOKEN_RESERVES
    ELSE 100 * INITIAL_REAL_TOKEN_RESERVES - (balance - RESERVED_TOKENS) * 100

\* progress (numerator over 7931) of a raw balance
calculate_bonding_curve_progress(balance) ==
    IF balance <= RESERVED_TOKENS
    THEN 100 * INITIAL_REAL_TOKEN_RESERVES
    ELSE LET progress == 100 * INITIAL_REAL_TOKEN_RESERVES
                         - (balance - RESERVED_TOKENS) * 100
             lo == IF progress < 100 * INITIAL_REAL_TOKEN_RESERVES
                   THEN progress ELSE 100 * INITIAL_REAL_TOKEN_RESERVES
         IN IF lo > 0 THEN lo ELSE 0

\* bonding_progress >= threshold, threshold in tenths of a percent
Reached(bonding_progress, threshold) ==
    bonding_progress * 10 >= threshold * INITIAL_REAL_TOKEN_RESERVES

\* bonding_progress >= 80
InBondingPhase(bonding_progress) ==
    bonding_progress >= BONDING_PHASE_MIN * INITIAL_REAL_TOKEN_RESERVES

\* variant: only the highest threshold reached is fired
NextFire_HighestOnly(thresholds, j, bonding_progress, fired) ==
    LET c == {k \in j..Len(thresholds) :
                 /\ Reached(bonding_progress, thresholds[k])
                 /\ alert_key(thresholds[k]) \notin fired}
    IN IF c = {} THEN 0 ELSE CHOOSE k \in c : \A m \in c : m <= k

\* Index of the first threshold at or after position j that fires for this
\* value and this set of fired keys; 0 when none fires.
NextFire(thresholds, j, bonding_progress, fired) ==
    LET c == {k \in j..Len(thresholds) :
                 /\ Reached(bonding_progress, thresholds[k])
                 /\ alert_key(thresholds[k]) \notin fired}
    IN IF c = {} THEN 0 ELSE Min(c)

\* The thresholds one complete run of the threshold loop fires, from
\* position j on, each fired key being added to the set before the next test.
RECURSIVE FiredFrom(_, _, _, _)
FiredFrom(thresholds, j, bonding_progress, fired) ==
    LET k == NextFire(thresholds, j, bonding_progress, fired)
    IN IF k = 0 THEN {}
       ELSE {thresholds[k]} \cup
            FiredFrom(thresholds, k + 1, bonding_progress,
                      fired \cup {alert_key(thresholds[k])})

shouldFire(thresholds, bonding_progress, fired) ==
    FiredFrom(thresholds, 1, bonding_progress, fired)

\* ------------------------------------------------------------------- state
VARIABLES
    user_subscriptions,   \* dict user_id -> set of tokens, in insertion order:
                          \* a sequence of [k |-> user_id, v |-> set]
    user_alerts,          \* dict user_id -> dict token -> set of alert keys
    token_data,           \* dict token -> latest stored metrics
    monitoring_tasks,     \* dict token -> id of the task object
    tasks,                \* task objects of monitor_bonding_token, by id
    cancelled,            \* per token, the task objects that were cancelled
                          \* and dropped from monitoring_tasks and have not
                          \* yet been run with the CancelledError
    cmd,                  \* the command handler in flight
    clock,                \* datetime.now(), advanced by every write
    sent,                 \* history: per user and threshold, send_message
                          \* calls made while the user is subscribed, since
                          \* the user's last unsubscribe (capped at 2)
    last_eval,            \* history: the threshold evaluation that the last
                          \* step completed, if it completed one
    send_error,           \* history: the send_message exception that the
                          \* last step caught, if it caught one
    last_stop,            \* history: where the task that the last step
                          \* cancelled was suspended, if it cancelled one
    last_fetch,           \* history: the samples and the metrics computed
                          \* from them, if the last step ended the fetches
                          \* of a poll cycle
    prev_fired,           \* history: per user, whether an unsubscribe of the
                          \* user discarded a set holding the first key
    calc                  \* the last two calls of
                          \* calculate_bonding_curve_progress made on their
                          \* own: arguments and results

vars == <<user_subscriptions, user_alerts, token_data, monitoring_tasks, tasks,
          cancelled, cmd, clock, sent, last_eval, last_fetch, send_error,
          last_stop,
          prev_fired, calc>>

TaskIds == 1..MaxTasks

ThresholdValues == {bonding_thresholds[k] : k \in 1..Len(bonding_thresholds)}

\* what an awaited call of the data provider yields: a sample, None, or an
\* exception
Absent == [kind |-> "absent", v |-> 0]

Failure == [kind |-> "error", v |-> 0]

Sample(x) == [kind |-> "value", v |-> x]

FetchOutcomes(values) == {Failure, Absent} \cup {Sample(x) : x \in values}

\* a slot that holds no task object
NoTask ==
    [pc |-> "none", token |-> "",
     token_data |-> Absent, price_usd |-> 0, bonding_progress |-> 0,
     it_pos |-> 0, it_len |-> 0, th_idx |-> 0,
     ua_live |-> TRUE, ua_keys |-> {},
     eval_before |-> {}, eval_fired |-> {},
     recovering |-> FALSE]

NewTask(token) == [NoTask EXCEPT !.pc = "start", !.token = token]

NoCmd == [kind |-> "none", user |-> 0, addr |-> "", pc |-> "none", again |-> FALSE]

NoEval == [user |-> 0, token |-> "", value |-> 0, before |-> {}, fired |-> {}, after |-> {}]

\* no call made yet; n counts the calls, up to 2
NoCalls == [n |-> 0, a |-> 0, fa |-> 0, b |-> 0, fb |-> 0]

NoError == [id |-> 0, user |-> 0, threshold |-> 0]

\* no task was cancelled or ended by its cancellation
NoStop == [token |-> "", at |-> ""]

\* the task cancelled for token, suspended at the await of position pc
StopAt(token, pc) == [token |-> token, at |-> pc]

\* a cancelled task of token ran with the CancelledError and ended
Stopped(token) == [token |-> token, at |-> "stopped"]

NoFetch == [id |-> 0, token |-> "", token_data |-> Absent, bonding_data |-> Absent,
            price_usd |-> 0, bonding_progress |-> 0]

\* --------------------------------------------------- reading the registry
HasUser(u) == \E i \in 1..Len(user_subscriptions) : user_subscriptions[i].k = u

IndexOf(u) == CHOOSE i \in 1..Len(user_subscriptions) : user_subscriptions[i].k = u

SubsOf(u) == IF HasUser(u) THEN user_subscriptions[IndexOf(u)].v ELSE {}

Subscribed(u, t) == t \in SubsOf(u)

Subscribers(t) == {u \in Users : Subscribed(u, t)}

HasAlertSet(u, t) == u \in DOMAIN user_alerts /\ t \in DOMAIN user_alerts[u]

FiredKeys(u, t) == IF HasAlertSet(u, t) THEN user_alerts[u][t] ELSE {}

\* a task object that has not finished and whose cancellation was not
\* requested: it is suspended in one of the awaits of its loop, or not yet run
Running(id) == tasks[id].pc \in {"start", "fetch_price", "fetch_bonding", "send", "sleep", "backoff"}

\* some task object of the token has not finished and its cancellation was
\* requested
Cancelling(t) == cancelled[t] > 0

RunningPollers(t) == {id \in TaskIds : Running(id) /\ tasks[id].token = t}

HasRunningPoller(t) == t \in DOMAIN monitoring_tasks /\ Running(monitoring_tasks[t])

FreeIds == {id \in TaskIds : tasks[id].pc = "none"}

RECURSIVE CancelledIn(_)
CancelledIn(ts) ==
    IF ts = {} THEN 0
    ELSE LET t == CHOOSE x \in ts : TRUE IN cancelled[t] + CancelledIn(ts \ {t})

\* the task objects that have not been released
Alive == Cardinality(TaskIds \ FreeIds) + CancelledIn(Tokens)

Init ==
    /\ user_subscriptions = <<>>
    /\ user_alerts = EmptyDict
    /\ token_data = EmptyDict
    /\ monitoring_tasks = EmptyDict
    /\ tasks = [id \in TaskIds |-> NoTask]
    /\ cancelled = [t \in Tokens |-> 0]
    /\ cmd = NoCmd
    /\ clock = 0
    /\ sent = [u \in Users |-> [th \in ThresholdValues |-> 0]]
    /\ last_eval = NoEval
    /\ last_fetch = NoFetch
    /\ send_error = NoError
    /\ last_stop = NoStop
    /\ prev_fired = [u \in Users |-> FALSE]
    /\ calc = NoCalls

\* ------------------------------------------------------- command handlers
\* a task between two cycles, or one whose locals are dead: only the token
\* and the history flag are kept
Rest(task, pc) == [NewTask(task.token) EXCEPT !.pc = pc, !.recovering = task.recovering]

\* the user whose thresholds a task suspended in send_message is evaluating
SendUser(task) == user_subscriptions[task.it_pos].k

\* del user_alerts[u][t] unbinds the set object from the registry; a task
\* suspended in a send for (u, t) keeps its local reference to that object
KeepLocalReference(task, u, t) ==
    IF task.pc = "send" /\ task.token = t /\ task.ua_live
    THEN IF SendUser(task) = u
         THEN [task EXCEPT !.ua_live = FALSE, !.ua_keys = FiredKeys(u, t)]
         ELSE task
    ELSE task

\* variant: the except Exception around send_message swallows the
\* CancelledError, so a task cancelled while it sends keeps running
CancelTask_SwallowedInSend(task) ==
    IF task.pc = "send"
    THEN [slot |-> task, pending |-> 0]
    ELSE [slot |-> NoTask, pending |-> IF task.pc = "done" THEN 0 ELSE 1]

\* variant: a cancellation that arrives in the sleep after an error is
\* swallowed, and the task keeps looping
CancelTask_SwallowedInBackoff(task) ==
    IF task.pc = "backoff"
    THEN [slot |-> task, pending |-> 0]
    ELSE [slot |-> NoTask, pending |-> IF task.pc = "done" THEN 0 ELSE 1]

\* variant: the task is dropped from the dict without being cancelled
CancelTask_NotCancelled(task) == [slot |-> task, pending |-> 0]

\* Task.cancel() followed by del monitoring_tasks[t]: a finished task object
\* is dropped; an unfinished one gets the cancellation request, which makes
\* the await it is suspended in raise CancelledError when the task is next
\* run (its locals are never read again, and nothing refers to it any more)
CancelTask(task) ==
    [slot |-> NoTask, pending |-> IF task.pc = "done" THEN 0 ELSE 1]

\* variant: the users' entries are one shared set, so a subscribe adds the
\* token for every user that has an entry
AddSubscription_SharedSet(subs, u, a) ==
    IF \E i \in 1..Len(subs) : subs[i].k = u
    THEN [i \in 1..Len(subs) |-> [subs[i] EXCEPT !.v = @ \cup {a}]]
    ELSE Append([i \in 1..Len(subs) |-> [subs[i] EXCEPT !.v = @ \cup {a}]],
                [k |-> u, v |-> {a}])

\* main.py:216-220
AddSubscription(subs, u, a) ==
    IF \E i \in 1..Len(subs) : subs[i].k = u
    THEN [i \in 1..Len(subs) |->
             IF subs[i].k = u THEN [subs[i] EXCEPT !.v = @ \cup {a}] ELSE subs[i]]
    ELSE Append(subs, [k |-> u, v |-> {a}])

\* variant: only the user's entry is tested, not the token
IsMonitoring_HasEntry(u, a) == HasUser(u)

\* the test of main.py:288
IsMonitoring(u, a) == Subscribed(u, a)

\* variant: the token is discarded from the set of every user
DiscardSubscription_FromAll(subs, u, a) ==
    [i \in 1..Len(subs) |-> [subs[i] EXCEPT !.v = @ \ {a}]]

\* main.py:289, for a user that has an entry
DiscardSubscription(subs, u, a) ==
    [i \in 1..Len(subs) |->
        IF subs[i].k = u THEN [subs[i] EXCEPT !.v = @ \ {a}] ELSE subs[i]]

\* variant: the user's dict of alert sets is created by every subscribe
UserAlertsOf_AlwaysNew(u) == EmptyDict

\* main.py:216-218: the user's dict of alert sets, created with the user's
\* entry in user_subscriptions
UserAlertsOf(u) == IF HasUser(u) THEN user_alerts[u] ELSE EmptyDict

\* variant: the set is created anew by every subscribe
InitialAlerts_Reset(ua, a) == With(ua, a, {})

\* main.py:222-223, on the user's dict of alert sets
InitialAlerts(ua, a) == IF a \in DOMAIN ua THEN ua ELSE With(ua, a, {})

\* variant: the set is left in the registry
DiscardAlerts_Kept(ua, a) == ua

\* main.py:291-292, on the user's dict of alert sets
DiscardAlerts(ua, a) == IF a \in DOMAIN ua THEN Without(ua, a) ELSE ua

\* variant: the test looks only at the leaving user's own set, which no
\* longer holds the token
NoSubscriberLeft_OwnSetOnly(u, a) == TRUE

\* variant: the poller is never stopped
NoSubscriberLeft_Never(u, a) == FALSE

\* main.py:295, evaluated after the discard of main.py:289
NoSubscriberLeft(u, a) == Subscribers(a) \ {u} = {}

\* variant: a task is created by every subscribe
NeedsTask_Always(a) == TRUE

\* main.py:228
NeedsTask(a) == a \notin DOMAIN monitoring_tasks

\* main.py:206-223; the handler is then suspended in reply_text (225, or
\* 210 for an address of invalid length, after which it only returns)
MonitorStart(u, a) ==
    /\ cmd = NoCmd
    /\ IF ~ValidAddress(a)
       THEN /\ cmd' = [NoCmd EXCEPT !.kind = "monitor", !.pc = "reply_invalid"]
            /\ UNCHANGED <<user_subscriptions, user_alerts>>
       ELSE /\ cmd' = [kind |-> "monitor", user |-> u, addr |-> a, pc |-> "reply",
                       again |-> Subscribed(u, a)]
            /\ user_subscriptions' = AddSubscription(user_subscriptions, u, a)
            /\ user_alerts' =
                  With(user_alerts, u, InitialAlerts(UserAlertsOf(u), a))
    /\ UNCHANGED <<cancelled, calc>>
    /\ last_eval' = NoEval
    /\ last_fetch' = NoFetch
    /\ send_error' = NoError
    /\ last_stop' = NoStop
    /\ UNCHANGED <<token_data, monitoring_tasks, tasks, clock, sent, prev_fired>>

\* main.py:225-236: reply_text returns or raises; when it returns, the task
\* is created unless the token has an entry in monitoring_tasks, and the
\* handler goes on to fetch the initial status
MonitorReply(ok) ==
    /\ cmd.kind = "monitor" /\ cmd.pc = "reply"
    /\ IF ok
       THEN /\ cmd' = [cmd EXCEPT !.pc = "status"]
            /\ IF NeedsTask(cmd.addr)
               THEN /\ Alive < MaxTasks
                    /\ LET id == Min(FreeIds)
                       IN /\ tasks' = [tasks EXCEPT ![id] = NewTask(cmd.addr)]
                          /\ monitoring_tasks' = With(monitoring_tasks, cmd.addr, id)
               ELSE UNCHANGED <<tasks, monitoring_tasks>>
       ELSE /\ cmd' = NoCmd
            /\ UNCHANGED <<tasks, monitoring_tasks>>
    /\ UNCHANGED <<cancelled, calc>>
    /\ last_eval' = NoEval
    /\ last_fetch' = NoFetch
    /\ send_error' = NoError
    /\ last_stop' = NoStop
    /\ UNCHANGED <<user_subscriptions, user_alerts, token_data, clock, sent, prev_fired>>

\* main.py:233-272: the initial status is fetched and reported; no field of
\* the bot is written.  Also the return after the reply at main.py:210-213.
MonitorFinish ==
    /\ cmd.kind = "monitor" /\ cmd.pc \in {"status", "reply_invalid"}
    /\ cmd' = NoCmd
    /\ UNCHANGED <<cancelled, calc>>
    /\ last_eval' = NoEval
    /\ last_fetch' = NoFetch
    /\ send_error' = NoError
    /\ last_stop' = NoStop
    /\ UNCHANGED <<user_subscriptions, user_alerts, token_data, monitoring_tasks,
                   tasks, clock, sent, prev_fired>>

\* main.py:286-298; the handler is then suspended in reply_text (300 or 305)
UnmonitorStart(u, a) ==
    /\ cmd = NoCmd
    /\ cmd' = [NoCmd EXCEPT !.kind = "unmonitor",
                             !.pc = IF IsMonitoring(u, a)
                                    THEN "reply" ELSE "reply_not_monitoring"]
    /\ IF IsMonitoring(u, a)
       THEN /\ user_subscriptions' = DiscardSubscription(user_subscriptions, u, a)
            /\ user_alerts' =
                  IF u \in DOMAIN user_alerts
                  THEN [user_alerts EXCEPT ![u] = DiscardAlerts(@, a)]
                  ELSE user_alerts
            /\ LET kept == [id \in TaskIds |->
                              IF HasAlertSet(u, a) /\ ~HasAlertSet(u, a)'
                              THEN KeepLocalReference(tasks[id], u, a) ELSE tasks[id]]
               IN IF NoSubscriberLeft(u, a) /\ a \in DOMAIN monitoring_tasks
                  THEN LET c == CancelTask(kept[monitoring_tasks[a]])
                       IN /\ tasks' = [kept EXCEPT ![monitoring_tasks[a]] = c.slot]
                          /\ cancelled' = [cancelled EXCEPT ![a] = @ + c.pending]
                          /\ monitoring_tasks' = Without(monitoring_tasks, a)
                          /\ last_stop' = IF kept[monitoring_tasks[a]].pc # "done"
                                          THEN StopAt(a, kept[monitoring_tasks[a]].pc)
                                          ELSE NoStop
                  ELSE /\ tasks' = kept
                       /\ last_stop' = NoStop
                       /\ UNCHANGED <<monitoring_tasks, cancelled>>
            /\ sent' = [sent EXCEPT ![u] = [th \in ThresholdValues |-> 0]]
            /\ prev_fired' = [prev_fired EXCEPT ![u] =
                                 @ \/ alert_key(bonding_thresholds[1]) \in FiredKeys(u, a)]
       ELSE /\ last_stop' = NoStop
            /\ UNCHANGED <<user_subscriptions, user_alerts, monitoring_tasks, tasks,
                           cancelled, sent, prev_fired>>
    /\ last_eval' = NoEval
    /\ last_fetch' = NoFetch
    /\ send_error' = NoError
    /\ UNCHANGED <<token_data, clock, calc>>

\* main.py:300-308: reply_text returns or raises, the handler ends
UnmonitorFinish ==
    /\ cmd.kind = "unmonitor" /\ cmd.pc \in {"reply", "reply_not_monitoring"}
    /\ cmd' = NoCmd
    /\ UNCHANGED <<cancelled, calc>>
    /\ last_eval' = NoEval
    /\ last_fetch' = NoFetch
    /\ send_error' = NoError
    /\ last_stop' = NoStop
    /\ UNCHANGED <<user_subscriptions, user_alerts, token_data, monitoring_tasks,
                   tasks, clock, sent, prev_fired>>

\* main.py:312-322: /status with an argument; the address is used as given
\* and the handler is suspended in the reply_text of main.py:322
StatusStart(a) ==
    /\ cmd = NoCmd
    /\ cmd' = [NoCmd EXCEPT !.kind = "status", !.addr = a, !.pc = "reply"]
    /\ last_eval' = NoEval
    /\ last_fetch' = NoFetch
    /\ send_error' = NoError
    /\ last_stop' = NoStop
    /\ UNCHANGED <<cancelled, calc>>
    /\ UNCHANGED <<user_subscriptions, user_alerts, token_data, monitoring_tasks,
                   tasks, clock, sent, prev_fired>>

\* main.py:322-326: reply_text returns and the handler is suspended in
\* get_token_price(token_address), or reply_text raises and the handler ends
StatusReply(ok) ==
    /\ cmd.kind = "status" /\ cmd.pc = "reply"
    /\ cmd' = IF ok THEN [cmd EXCEPT !.pc = "get_token_price"] ELSE NoCmd
    /\ last_eval' = NoEval
    /\ last_fetch' = NoFetch
    /\ send_error' = NoError
    /\ last_stop' = NoStop
    /\ UNCHANGED <<cancelled, calc>>
    /\ UNCHANGED <<user_subscriptions, user_alerts, token_data, monitoring_tasks,
                   tasks, clock, sent, prev_fired>>

\* main.py:326-327 and 338-340: get_token_price returns and the handler is
\* suspended in get_bonding_curve_progress(token_address), or it raises and
\* the handler reports the error with reply_text and ends
StatusPrice(r) ==
    /\ cmd.kind = "status" /\ cmd.pc = "get_token_price"
    /\ cmd' = IF r = Failure THEN NoCmd
              ELSE [cmd EXCEPT !.pc = "get_bonding_curve_progress"]
    /\ last_eval' = NoEval
    /\ last_fetch' = NoFetch
    /\ send_error' = NoError
    /\ last_stop' = NoStop
    /\ UNCHANGED <<cancelled, calc>>
    /\ UNCHANGED <<user_subscriptions, user_alerts, token_data, monitoring_tasks,
                   tasks, clock, sent, prev_fired>>

\* main.py:327-340: get_bonding_curve_progress returns or raises; the
\* handler reports the status, the missing data or the error with
\* reply_text and ends.  No field of the bot is read or written.
StatusBonding(r) ==
    /\ cmd.kind = "status" /\ cmd.pc = "get_bonding_curve_progress"
    /\ cmd' = NoCmd
    /\ last_eval' = NoEval
    /\ last_fetch' = NoFetch
    /\ send_error' = NoError
    /\ last_stop' = NoStop
    /\ UNCHANGED <<cancelled, calc>>
    /\ UNCHANGED <<user_subscriptions, user_alerts, token_data, monitoring_tasks,
                   tasks, clock, sent, prev_fired>>

\* the tokens /list shows to a user (main.py:346-352)
ListTokens(u) == IF ~HasUser(u) \/ SubsOf(u) = {} THEN {} ELSE SubsOf(u)

\* what /list shows for a token without stored metrics (main.py:365-367)
Loading == [kind |-> "loading", price_usd |-> 0, bonding_progress |-> 0]

\* what /list shows for a token of the user's set (main.py:354-367)
ListEntry(token) ==
    IF token \in DOMAIN token_data
    THEN [kind |-> "data", price_usd |-> token_data[token].price_usd,
          bonding_progress |-> token_data[token].bonding_progress]
    ELSE Loading

\* main.py:343-369: /list builds its message from user_subscriptions and
\* token_data without an await and is suspended in reply_text (347 or 369)
ListStart(u) ==
    /\ cmd = NoCmd
    /\ cmd' = [NoCmd EXCEPT !.kind = "list", !.pc = "reply"]
    /\ last_eval' = NoEval
    /\ last_fetch' = NoFetch
    /\ send_error' = NoError
    /\ last_stop' = NoStop
    /\ UNCHANGED <<cancelled, calc>>
    /\ UNCHANGED <<user_subscriptions, user_alerts, token_data, monitoring_tasks,
                   tasks, clock, sent, prev_fired>>

\* main.py:347 and 369: reply_text returns or raises, the handler ends
ListFinish ==
    /\ cmd.kind = "list" /\ cmd.pc = "reply"
    /\ cmd' = NoCmd
    /\ last_eval' = NoEval
    /\ last_fetch' = NoFetch
    /\ send_error' = NoError
    /\ last_stop' = NoStop
    /\ UNCHANGED <<cancelled, calc>>
    /\ UNCHANGED <<user_subscriptions, user_alerts, token_data, monitoring_tasks,
                   tasks, clock, sent, prev_fired>>

\* ------------------------------------------- monitor_bonding_token (task)
\* check_bonding_alerts, main.py:547-593, from one await to the next.
\* Evaluate continues the threshold loop of the user at task.it_pos from
\* threshold index j; Advance moves the iteration over user_subscriptions to
\* position pos.  Both return the task at its next suspension, the last
\* evaluation completed on the way, and the key added and message sent.
RECURSIVE Evaluate(_, _, _), Advance(_, _, _)
Evaluate(task, j, ev) ==
    LET u == user_subscriptions[task.it_pos].k
        keys == IF task.ua_live THEN user_alerts[u][task.token] ELSE task.ua_keys
        k == NextFire(bonding_thresholds, j, task.bonding_progress, keys)
    IN IF k # 0
       THEN [task |-> [task EXCEPT
                          !.pc = "send", !.th_idx = k,
                          !.ua_keys = IF task.ua_live THEN @
                                      ELSE @ \cup {alert_key(bonding_thresholds[k])},
                          !.eval_fired = @ \cup {bonding_thresholds[k]}],
             eval |-> ev,
             fire |-> {<<u, bonding_thresholds[k], task.ua_live>>}]
       ELSE Advance(task, task.it_pos + 1,
                    [user |-> u, token |-> task.token, value |-> task.bonding_progress,
                     before |-> task.eval_before, fired |-> task.eval_fired,
                     after |-> keys])

Advance(task, pos, ev) ==
    IF Len(user_subscriptions) # task.it_len
    THEN [task |-> Rest(task, "backoff"), eval |-> ev, fire |-> {}]
    ELSE IF pos > Len(user_subscriptions)
    THEN [task |-> Rest(task, "sleep"), eval |-> ev, fire |-> {}]
    ELSE IF task.token \notin user_subscriptions[pos].v
    THEN Advance(task, pos + 1, ev)
    ELSE LET u == user_subscriptions[pos].k
         IN Evaluate([task EXCEPT !.it_pos = pos,
                                  !.ua_live = HasAlertSet(u, task.token),
                                  !.ua_keys = {},
                                  !.eval_before = FiredKeys(u, task.token),
                                  !.eval_fired = {}],
                     1, ev)

\* variant: the exception of send_message leaves check_bonding_alerts and is
\* caught by the handler of the poll loop
AfterSend_Propagates(task, ok) ==
    IF ok THEN Evaluate(task, task.th_idx + 1, NoEval)
    ELSE [task |-> [Rest(task, "backoff") EXCEPT !.recovering = TRUE],
          eval |-> NoEval, fire |-> {}]

\* main.py:586-593: send_message returns, or raises an exception that is
\* caught and logged; either way the threshold loop goes on
AfterSend(task, ok) == Evaluate(task, task.th_idx + 1, NoEval)

\* the effect of one such stretch of check_bonding_alerts on the bot
Apply(id, r) ==
    /\ tasks' = [tasks EXCEPT ![id] = r.task]
    /\ last_eval' = r.eval
    /\ IF r.fire = {}
       THEN UNCHANGED <<user_alerts, sent>>
       ELSE LET f == CHOOSE x \in r.fire : TRUE
            IN /\ user_alerts' =
                     IF f[3]
                     THEN [user_alerts EXCEPT ![f[1]][tasks[id].token] = @ \cup {alert_key(f[2])}]
                     ELSE user_alerts
               /\ sent' =
                     IF Subscribed(f[1], tasks[id].token)
                     THEN [sent EXCEPT ![f[1]][f[2]] = IF @ < 2 THEN @ + 1 ELSE @]
                     ELSE sent

\* main.py:496-499: the task is first run, or wakes from sleep(15) or
\* sleep(30), and is suspended in get_token_price
PollerBegin(id) ==
    /\ tasks[id].pc \in {"start", "sleep", "backoff"}
    /\ clock < MaxClock
    /\ tasks' = [tasks EXCEPT ![id].pc = "fetch_price"]
    /\ UNCHANGED <<cancelled, calc>>
    /\ last_eval' = NoEval
    /\ last_fetch' = NoFetch
    /\ send_error' = NoError
    /\ last_stop' = NoStop
    /\ UNCHANGED <<user_subscriptions, user_alerts, token_data, monitoring_tasks,
                   cmd, clock, sent, prev_fired>>

\* main.py:499-500 and 539-541: get_token_price returns or raises
FetchPrice(id, r) ==
    /\ tasks[id].pc = "fetch_price"
    /\ tasks' = [tasks EXCEPT ![id] =
                    IF r = Failure
                    THEN [Rest(@, "backoff") EXCEPT !.recovering = TRUE]
                    ELSE [@ EXCEPT !.pc = "fetch_bonding", !.token_data = r]]
    /\ UNCHANGED <<cancelled, calc>>
    /\ last_eval' = NoEval
    /\ last_fetch' = NoFetch
    /\ send_error' = NoError
    /\ last_stop' = NoStop
    /\ UNCHANGED <<user_subscriptions, user_alerts, token_data, monitoring_tasks,
                   cmd, clock, sent, prev_fired>>

\* variant: the sleep after an error is the steady-state sleep
SleepSeconds_SameAfterError(task) ==
    IF task.pc \in {"sleep", "backoff"} THEN SLEEP_NORMAL ELSE 0

\* the seconds a task asleep between two cycles sleeps for: sleep(15) at the
\* end of a cycle (main.py:534), sleep(30) after an exception (main.py:541)
SleepSeconds(task) ==
    IF task.pc = "sleep" THEN SLEEP_NORMAL
    ELSE IF task.pc = "backoff" THEN SLEEP_ERROR
    ELSE 0

\* price_usd of main.py:503-508
PriceOf(token_data_) == IF token_data_.kind = "value" THEN token_data_.v ELSE 0

\* bonding_progress of main.py:504-514
ProgressOf(bonding_data) ==
    IF bonding_data.kind = "value"
    THEN calculate_bonding_curve_progress(bonding_data.v) ELSE 0

\* variant: the cycle goes on with no sample at all
HasData_Always(token_data_, bonding_data) == TRUE

\* the test of main.py:502
HasData(token_data_, bonding_data) == token_data_ # Absent \/ bonding_data # Absent

\* the test of main.py:517: TRUE stores the metrics and checks the alerts,
\* FALSE leaves the loop (main.py:529-532)
StoresMetrics(bonding_progress) == InBondingPhase(bonding_progress)

\* variant: the stored dict is updated in place, field by field, and the
\* price is left as an earlier cycle wrote it
StoredMetrics_UpdatedInPlace(token, price_usd, bonding_progress, now, token_data_, bonding_data) ==
    [price_usd |-> IF token \in DOMAIN token_data
                   THEN token_data[token].price_usd ELSE price_usd,
     bonding_progress |-> bonding_progress,
     last_update |-> now,
     token_data |-> token_data_,
     bonding_data |-> bonding_data]

\* main.py:519-525: the dict that one assignment stores for the token
StoredMetrics(token, price_usd, bonding_progress, now, token_data_, bonding_data) ==
    [price_usd |-> price_usd,
     bonding_progress |-> bonding_progress,
     last_update |-> now,
     token_data |-> token_data_,
     bonding_data |-> bonding_data]

\* main.py:500-534 and 539-541: get_bonding_curve_progress returns or
\* raises; the metrics are computed, stored and the alert pass runs up to
\* its first send_message
FetchBonding(id, r) ==
    /\ tasks[id].pc = "fetch_bonding"
    /\ LET task == tasks[id]
           price_usd == PriceOf(task.token_data)
           bonding_progress == ProgressOf(r)
       IN /\ last_fetch' =
                IF r = Failure THEN NoFetch
                ELSE [id |-> id, token |-> task.token,
                      token_data |-> task.token_data, bonding_data |-> r,
                      price_usd |-> price_usd, bonding_progress |-> bonding_progress]
          /\ IF r = Failure
             THEN /\ tasks' = [tasks EXCEPT ![id] =
                                  [Rest(@, "backoff") EXCEPT !.recovering = TRUE]]
                  /\ last_eval' = NoEval
                  /\ UNCHANGED <<user_alerts, token_data, clock, sent>>
             ELSE IF ~HasData(task.token_data, r)
             THEN /\ tasks' = [tasks EXCEPT ![id] = Rest(@, "sleep")]
                  /\ last_eval' = NoEval
                  /\ UNCHANGED <<user_alerts, token_data, clock, sent>>
             ELSE IF StoresMetrics(bonding_progress)
             THEN /\ clock' = clock + 1
                  /\ token_data' = With(token_data, task.token,
                                        StoredMetrics(task.token, price_usd,
                                                      bonding_progress, clock + 1,
                                                      task.token_data, r))
                  /\ Apply(id, Advance([task EXCEPT !.price_usd = price_usd,
                                                    !.bonding_progress = bonding_progress,
                                                    !.it_len = Len(user_subscriptions),
                                                    !.recovering = FALSE],
                                       1, NoEval))
             ELSE /\ tasks' = [tasks EXCEPT ![id] =
                                  IF task.token \in DOMAIN monitoring_tasks
                                     /\ monitoring_tasks[task.token] = id
                                  THEN Rest(@, "done") ELSE NoTask]
                  /\ last_eval' = NoEval
                  /\ UNCHANGED <<user_alerts, token_data, clock, sent>>
       /\ UNCHANGED <<cancelled, calc>>
    /\ send_error' = NoError
    /\ last_stop' = NoStop
    /\ UNCHANGED <<user_subscriptions, monitoring_tasks, cmd, prev_fired>>

\* main.py:586-593, then the rest of the pass up to the next send_message:
\* send_message returns (ok) or raises an exception that is logged
SendDone(id, ok) ==
    /\ tasks[id].pc = "send"
    /\ Apply(id, AfterSend(tasks[id], ok))
    /\ last_fetch' = NoFetch
    /\ send_error' =
          IF ok THEN NoError
          ELSE [id |-> id, user |-> SendUser(tasks[id]),
                threshold |-> bonding_thresholds[tasks[id].th_idx]]
    /\ last_stop' = NoStop
    /\ UNCHANGED <<cancelled, calc>>
    /\ UNCHANGED <<user_subscriptions, token_data, monitoring_tasks, cmd, clock,
                   prev_fired>>

\* main.py:536-538: CancelledError is raised at the await the task is
\* suspended in (out of sleep(30) it leaves the coroutine directly); a task
\* cancelled before its first run never runs.  The task object is finished.
CancelDelivered(t) ==
    /\ Cancelling(t)
    /\ cancelled' = [cancelled EXCEPT ![t] = @ - 1]
    /\ last_eval' = NoEval
    /\ last_fetch' = NoFetch
    /\ send_error' = NoError
    /\ last_stop' = Stopped(t)
    /\ UNCHANGED <<user_subscriptions, user_alerts, token_data, monitoring_tasks,
                   tasks, cmd, clock, sent, prev_fired, calc>>

\* ------------------------------------------------------------ specification
Next ==
    \/ \E u \in Users, a \in Addresses : MonitorStart(u, a)
    \/ \E ok \in BOOLEAN : MonitorReply(ok)
    \/ MonitorFinish
    \/ \E u \in Users, a \in Addresses : UnmonitorStart(u, a)
    \/ UnmonitorFinish
    \/ \E a \in Addresses : StatusStart(a)
    \/ \E ok \in BOOLEAN : StatusReply(ok)
    \/ \E r \in FetchOutcomes(Prices) : StatusPrice(r)
    \/ \E r \in FetchOutcomes(Balances) : StatusBonding(r)
    \/ \E u \in Users : ListStart(u)
    \/ ListFinish
    \/ \E id \in TaskIds : PollerBegin(id)
    \/ \E id \in TaskIds, r \in FetchOutcomes(Prices) : FetchPrice(id, r)
    \/ \E id \in TaskIds, r \in FetchOutcomes(Balances) : FetchBonding(id, r)
    \/ \E id \in TaskIds, ok \in BOOLEAN : SendDone(id, ok)
    \/ \E t \in Tokens : CancelDelivered(t)

Spec == Init /\ [][Next]_vars

\* ------------------------------------------ the metric calculator on its own
\* raw balances in units of 100 000 tokens: negative ones, both sides of
\* 206 900 000 and of 1 000 000 000, and beyond
CalcBalances ==
    {250 * x : x \in -4..48} \cup {2068, 2069, 2070, 9999, 10000, 10001}

\* bitquery_client.py:362-369, called with balance
Calculate(balance) ==
    /\ calc' = [n |-> IF calc.n < 2 THEN calc.n + 1 ELSE 2,
                a |-> calc.b, fa |-> calc.fb,
                b |-> balance, fb |-> calculate_bonding_curve_progress(balance)]
    /\ UNCHANGED <<user_subscriptions, user_alerts, token_data, monitoring_tasks,
                   tasks, cancelled, cmd, clock, sent, last_eval, last_fetch,
                   send_error, last_stop, prev_fired>>

NextCalc == \E balance \in CalcBalances : Calculate(balance)

SpecCalc == Init /\ [][NextCalc]_vars

\* a balance that puts the token in the bonding phase with thresholds crossed
LiveBalances == {2386}

\* the commands that start and stop pollers, and the pollers: status_command
\* and list_command write nothing that a poller or a stop reads, and one
\* balance in the bonding phase takes the poller through every await
NextLive ==
    \/ \E u \in Users, a \in Addresses : MonitorStart(u, a)
    \/ \E ok \in BOOLEAN : MonitorReply(ok)
    \/ MonitorFinish
    \/ \E u \in Users, a \in Addresses : UnmonitorStart(u, a)
    \/ UnmonitorFinish
    \/ \E id \in TaskIds : PollerBegin(id)
    \/ \E id \in TaskIds, r \in FetchOutcomes(Prices) : FetchPrice(id, r)
    \/ \E id \in TaskIds, r \in FetchOutcomes(LiveBalances) : FetchBonding(id, r)
    \/ \E id \in TaskIds, ok \in BOOLEAN : SendDone(id, ok)
    \/ \E t \in Tokens : CancelDelivered(t)

\* balances at the edges of the calculator's range: under the reserve (100 %),
\* in the bonding phase, and over the whole supply (0 %)
EdgeBalances == {2000, 2386, 10500}

\* the first user to write to the bot
FirstUser == {Min(Users)}

\* one user's commands that start and stop the poller, and the poller over
\* the edge balances
NextEdge ==
    \/ \E u \in FirstUser, a \in Addresses : MonitorStart(u, a)
    \/ \E ok \in BOOLEAN : MonitorReply(ok)
    \/ MonitorFinish
    \/ \E u \in FirstUser, a \in Addresses : UnmonitorStart(u, a)
    \/ UnmonitorFinish
    \/ \E id \in TaskIds : PollerBegin(id)
    \/ \E id \in TaskIds, r \in FetchOutcomes(Prices) : FetchPrice(id, r)
    \/ \E id \in TaskIds, r \in FetchOutcomes(EdgeBalances) : FetchBonding(id, r)
    \/ \E id \in TaskIds, ok \in BOOLEAN : SendDone(id, ok)
    \/ \E t \in Tokens : CancelDelivered(t)

SpecEdge == Init /\ [][NextEdge]_vars

\* the event loop runs every callback that is ready: a task that was
\* cancelled is woken with call_soon and runs in a later loop iteration
SpecLive ==
    Init /\ [][NextLive]_vars /\ WF_vars(\E t \in Tokens : CancelDelivered(t))

TypeOK ==
    /\ \A i \in 1..Len(user_subscriptions) :
          user_subscriptions[i].k \in Users /\ user_subscriptions[i].v \subseteq Tokens
    /\ DOMAIN user_alerts \subseteq Users
    /\ DOMAIN monitoring_tasks \subseteq Tokens
    /\ \A t \in DOMAIN monitoring_tasks : monitoring_tasks[t] \in TaskIds
    /\ clock \in 0..MaxClock
    /\ \A t \in Tokens : cancelled[t] \in 0..MaxTasks
    /\ Alive <= MaxTasks

\* ------------------------------------------------------------------ claims
MetricsOf(t) == IF t \in DOMAIN token_data THEN {token_data[t]} ELSE {}

\* C1: whenever no subscribe or unsubscribe command is in flight, every token
\* that some user is subscribed to has a poller task that has not finished.
C1_SubscribedTokenHasRunningPoller ==
    cmd = NoCmd => \A t \in Tokens : Subscribers(t) # {} => HasRunningPoller(t)

\* C2: once all commands have completed, no token without subscribers has a
\* running poller.
C2_NoPollerWithoutSubscriber ==
    cmd = NoCmd => \A t \in Tokens : RunningPollers(t) # {} => Subscribers(t) # {}

\* both users have subscribed and unsubscribed, the poller had stored metrics
\* and has been stopped
C2_Witness ==
    /\ cmd = NoCmd
    /\ Len(user_subscriptions) = 2
    /\ \E t \in Tokens :
          /\ Subscribers(t) = {}
          /\ t \in DOMAIN token_data
          /\ Cancelling(t)

\* C3: at most one poller runs poll cycles for a token in every reachable
\* state.
C3_AtMostOnePollerPerToken ==
    \A t \in Tokens : Cardinality(RunningPollers(t)) <= 1

\* after an unsubscribe and a new subscribe: the stopped task object has not
\* finished yet and the new task is already fetching
C3_Witness ==
    \E t \in Tokens, new \in TaskIds :
        /\ Cancelling(t)
        /\ tasks[new].token = t /\ tasks[new].pc \in {"fetch_price", "fetch_bonding", "send"}
        /\ Cardinality(Subscribers(t)) = 2

\* C4: a subscribe by a user who is already subscribed to the token leaves
\* exactly one poller running for it and the token in the user's set.
C4_SubscribeTwiceOnePoller ==
    (cmd.kind = "monitor" /\ cmd.pc = "status" /\ cmd.again)
        => /\ Cardinality(RunningPollers(cmd.addr)) = 1
           /\ Subscribed(cmd.user, cmd.addr)

\* C5: the unsubscribe of the last subscriber leaves no running poller for
\* the token, and while the token has no subscriber its stored metrics are
\* not written.
C5_NoWriteAfterLastUnsubscribe ==
    [][\A t \in Tokens :
          /\ (Subscribers(t) # {} /\ Subscribers(t)' = {}) => RunningPollers(t)' = {}
          /\ Subscribers(t) = {} => MetricsOf(t)' = MetricsOf(t)]_vars

\* the last subscriber has unsubscribed, the command is over, metrics had
\* been stored and the stopped task has not yet finished
C5_Witness ==
    /\ cmd = NoCmd
    /\ \E t \in Tokens :
          /\ Subscribers(t) = {}
          /\ t \in DOMAIN token_data
          /\ Len(user_subscriptions) = 1
          /\ Cancelling(t)

\* C6: an unsubscribe removes the pair's set of fired keys from the registry,
\* and the subscribe that follows it binds an empty set, so every threshold
\* is unfired again for the pair.
C6_UnsubscribeResetsAlertState ==
    [][\A u \in Users, t \in Tokens :
          /\ (Subscribed(u, t) /\ ~Subscribed(u, t)') => ~HasAlertSet(u, t)'
          /\ (~Subscribed(u, t) /\ Subscribed(u, t)')
                => (HasAlertSet(u, t)' /\ FiredKeys(u, t)' = {})]_vars

\* a user whose earlier subscription had fired the first threshold has
\* subscribed again and has been sent that threshold again
C6_Witness ==
    \E u \in Users, t \in Tokens :
        /\ prev_fired[u]
        /\ Subscribed(u, t)
        /\ alert_key(bonding_thresholds[1]) \in FiredKeys(u, t)
        /\ sent[u][bonding_thresholds[1]] = 1

\* C7: within one subscription of a user, send_message is called at most
\* once per threshold.
C7_AtMostOneNotificationPerThreshold ==
    \A u \in Users, th \in ThresholdValues : sent[u][th] <= 1

\* 96 percent, as a progress numerator
Progress96 == 96 * INITIAL_REAL_TOKEN_RESERVES

\* C8: a completed evaluation has fired exactly the thresholds reached by the
\* value whose keys were not in the set, has recorded their keys, and an
\* evaluation repeated on the resulting set fires nothing; with the
\* thresholds of config.py, 96 percent and an empty set fire 50, 75, 90, 95.
C8_FiresEveryCrossedThresholdOnce ==
    /\ last_eval # NoEval =>
          /\ last_eval.fired =
                {th \in ThresholdValues :
                    Reached(last_eval.value, th) /\ alert_key(th) \notin last_eval.before}
          /\ last_eval.after = last_eval.before \cup {alert_key(th) : th \in last_eval.fired}
          /\ shouldFire(bonding_thresholds, last_eval.value, last_eval.after) = {}
    /\ shouldFire(BONDING_CURVE_ALERT_THRESHOLDS, Progress96, {}) = {500, 750, 900, 950}
    /\ shouldFire(BONDING_CURVE_ALERT_THRESHOLDS, Progress96,
                  {alert_key(500), alert_key(750), alert_key(900), alert_key(950)}) = {}

\* an evaluation that started from a non-empty set has just fired two
\* thresholds at once
C8_Witness ==
    /\ last_eval # NoEval
    /\ last_eval.before # {}
    /\ Cardinality(last_eval.fired) >= 2

\* C9: while a user stays subscribed to a token, no step removes a key from
\* the pair's set of fired keys.
C9_FiredKeysOnlyGrow ==
    [][\A u \in Users, t \in Tokens :
          (Subscribed(u, t) /\ Subscribed(u, t)')
              => FiredKeys(u, t) \subseteq FiredKeys(u, t)']_vars

\* the key of 95 is still in the set of a user who has subscribed a second
\* time, while the stored progress has fallen below 95
C9_Witness ==
    \E u \in Users, t \in Tokens :
        /\ alert_key(950) \in FiredKeys(u, t)
        /\ t \in DOMAIN token_data
        /\ ~Reached(token_data[t].bonding_progress, 950)
        /\ cmd.kind = "monitor" /\ cmd.user = u /\ cmd.again

\* C10: a data provider exception leaves the stored metrics unchanged and
\* the poller in its loop, and a poller that had an exception does not end
\* before a cycle has stored fresh metrics.
C10_ErrorKeepsPollerAndMetrics ==
    /\ [][\A id \in TaskIds :
             (tasks[id].pc \in {"fetch_price", "fetch_bonding"} /\ tasks'[id].pc = "backoff")
                 => token_data' = token_data]_vars
    /\ [](\A id \in TaskIds : ~(tasks[id].pc = "done" /\ tasks[id].recovering))

\* C11: a poller leaves Running only in a step that requests its
\* cancellation (the unsubscribe of the token's last subscriber); no fetched
\* value makes it stop.
C11_PollerStopsOnlyOnCancel ==
    [][\A id \in TaskIds :
          (Running(id) /\ ~Running(id)')
              => /\ cancelled'[tasks[id].token] = cancelled[tasks[id].token] + 1
                 /\ Subscribers(tasks[id].token)' = {}]_vars

\* the last step ended the fetches of a poll cycle of token t
CycleEnded(t) == last_fetch.id # 0 /\ last_fetch.token = t

\* C12: a cycle in which both samples are absent leaves the stored metrics
\* unchanged, evaluates and sends nothing, and the poller goes to the sleep
\* that precedes its next cycle.
C12_BothAbsentIsSoftFailure ==
    [][\A t \in Tokens :
          (CycleEnded(t)' /\ last_fetch'.token_data = Absent
                          /\ last_fetch'.bonding_data = Absent)
              => /\ token_data' = token_data
                 /\ user_alerts' = user_alerts
                 /\ sent' = sent
                 /\ last_eval' = NoEval
                 /\ tasks'[last_fetch'.id].pc = "sleep"]_vars

\* a cycle with both samples absent has ended for a token that has a
\* subscriber and stored metrics
C12_Witness ==
    \E t \in Tokens :
        /\ CycleEnded(t)
        /\ last_fetch.token_data = Absent /\ last_fetch.bonding_data = Absent
        /\ Subscribers(t) # {}
        /\ t \in DOMAIN token_data
        /\ tasks[last_fetch.id].pc = "sleep"

\* C13: a cycle in which at least one sample is present has stored the
\* metrics computed from its samples as the token's snapshot and has gone on
\* to the alert pass, whatever the progress is.
C13_PresentSampleStoresAndEvaluates ==
    \A t \in Tokens :
        (CycleEnded(t) /\ HasData(last_fetch.token_data, last_fetch.bonding_data))
            => /\ t \in DOMAIN token_data
               /\ token_data[t].price_usd = last_fetch.price_usd
               /\ token_data[t].bonding_progress = last_fetch.bonding_progress
               /\ token_data[t].last_update = clock
               /\ tasks[last_fetch.id].pc \in {"send", "sleep"}

\* C14: in a cycle with exactly one sample absent, the metric of the absent
\* sample in the token's snapshot keeps the value of the previous snapshot,
\* and is 0 only when there is no previous snapshot.
C14_AbsentSampleRetainsPrevious ==
    [][\A t \in Tokens :
          (CycleEnded(t)' /\ HasData(last_fetch'.token_data, last_fetch'.bonding_data))
              => \A m \in MetricsOf(t)' :
                    /\ last_fetch'.token_data = Absent
                          => m.price_usd =
                                IF t \in DOMAIN token_data
                                THEN token_data[t].price_usd ELSE 0
                    /\ last_fetch'.bonding_data = Absent
                          => m.bonding_progress =
                                IF t \in DOMAIN token_data
                                THEN token_data[t].bonding_progress ELSE 0]_vars

\* the positions after pos in the iteration whose user is subscribed to the
\* task's token and has a reached threshold that is not fired
PendingAfter(task, pos) ==
    {p \in (pos + 1)..Len(user_subscriptions) :
        /\ task.token \in user_subscriptions[p].v
        /\ shouldFire(bonding_thresholds, task.bonding_progress,
                      FiredKeys(user_subscriptions[p].k, task.token)) # {}}

\* C15: after a send_message that failed, the pass goes on: to the same
\* user's next reached threshold if there is one, else to the next
\* subscriber that has one, else the poller sleeps until its next cycle.
C15_SendFailureDoesNotBlock ==
    [][\A id \in TaskIds :
          (send_error'.id = id /\ Len(user_subscriptions) = tasks[id].it_len)
              => LET task == tasks[id]
                     u == send_error'.user
                     keys == IF task.ua_live THEN FiredKeys(u, task.token)
                             ELSE task.ua_keys
                     k == NextFire(bonding_thresholds, task.th_idx + 1,
                                   task.bonding_progress, keys)
                     P == PendingAfter(task, task.it_pos)
                 IN /\ tasks'[id].pc \in {"send", "sleep"}
                    /\ k # 0 => /\ tasks'[id].pc = "send"
                                /\ tasks'[id].it_pos = task.it_pos
                                /\ tasks'[id].th_idx = k
                    /\ (k = 0 /\ P # {}) => /\ tasks'[id].pc = "send"
                                            /\ tasks'[id].it_pos = Min(P)
                    /\ (k = 0 /\ P = {}) => tasks'[id].pc = "sleep"]_vars

\* a send to the first subscriber has failed and the pass is now sending
\* the same crossing to the second subscriber
C15_Witness ==
    \E id \in TaskIds :
        /\ send_error.id = id
        /\ tasks[id].pc = "send"
        /\ SendUser(tasks[id]) # send_error.user
        /\ bonding_thresholds[tasks[id].th_idx] = send_error.threshold

\* the step suspends task id in a send_message it was not suspended in
Attempts(id) ==
    /\ tasks'[id].pc = "send"
    /\ \/ tasks[id].pc # "send"
       \/ tasks'[id].th_idx # tasks[id].th_idx
       \/ tasks'[id].it_pos # tasks[id].it_pos

\* C16: when a notification is attempted for a subscribed user, the key of
\* its threshold is already in the pair's set of fired keys, which is what
\* keeps a send that fails from being attempted again while the user stays
\* subscribed.
C16_KeyRecordedBeforeSend ==
    [][\A id \in TaskIds, u \in Users, t \in Tokens, th \in ThresholdValues :
          (/\ Attempts(id)
           /\ SendUser(tasks[id])' = u
           /\ tasks'[id].token = t
           /\ bonding_thresholds[tasks'[id].th_idx] = th
           /\ Subscribed(u, t)')
              => alert_key(th) \in FiredKeys(u, t)']_vars

\* the address a command handler has passed to the data provider, while the
\* handler is suspended in that call
ProviderArgs ==
    IF cmd.pc \in {"get_token_price", "get_bonding_curve_progress"} THEN {cmd.addr}
    ELSE IF cmd.kind = "monitor" /\ cmd.pc = "status" THEN {cmd.addr}
    ELSE {}

\* C17: an address whose length is outside [32,44] is never passed to the
\* data provider, is in no subscription set and has no poller.
C17_InvalidAddressRejected ==
    /\ \A a \in ProviderArgs : ValidAddress(a)
    /\ \A i \in 1..Len(user_subscriptions) :
          \A a \in user_subscriptions[i].v : ValidAddress(a)
    /\ \A a \in DOMAIN monitoring_tasks : ValidAddress(a)
    /\ \A id \in TaskIds : tasks[id].pc # "none" => ValidAddress(tasks[id].token)

\* 100 percent, as a progress numerator
Progress100 == 100 * INITIAL_REAL_TOKEN_RESERVES

\* C18: the progress of a balance is between 0 and 100, is exactly 100 for
\* a balance of at most 206 900 000, and of two balances the larger one
\* never has the larger progress.
C18_ProgressClampedAndMonotone ==
    /\ calc.n >= 1 =>
          /\ calc.fb >= 0 /\ calc.fb <= Progress100
          /\ calc.b <= RESERVED_TOKENS => calc.fb = Progress100
    /\ (calc.n = 2 /\ calc.a <= calc.b) => calc.fa >= calc.fb

\* a negative balance gave 100, a balance above 1 000 000 000 gave 0
C18_Witness ==
    /\ calc.n = 2
    /\ calc.a < 0 /\ calc.fa = Progress100
    /\ calc.b > 10000 /\ calc.fb = 0

\* a progress numerator is within half a percentage point of a value given
\* in tenths of a percent
About(bonding_progress, tenths) ==
    /\ bonding_progress * 10 >= (tenths - 5) * INITIAL_REAL_TOKEN_RESERVES
    /\ bonding_progress * 10 <= (tenths + 5) * INITIAL_REAL_TOKEN_RESERVES

\* the poller whose cycle has just ended goes on to its next cycle
GoesOn == tasks[last_fetch.id].pc \in {"send", "sleep"}

\* C19: poll cycles with the reserve balances 800 000 000, 500 000 000 and
\* 210 000 000 compute about 0.9, 38 and 99.7 percent and the poller goes on
\* after each of them; with the thresholds 50 and 90 the second fires
\* exactly 50 and the third exactly 90.
C19_EndToEndExample ==
    \A t \in Tokens :
        /\ (CycleEnded(t) /\ last_fetch.bonding_data = Sample(8000))
              => /\ About(last_fetch.bonding_progress, 9)
                 /\ GoesOn
                 /\ shouldFire(<<500, 900>>, last_fetch.bonding_progress, {}) = {}
        /\ (CycleEnded(t) /\ last_fetch.bonding_data = Sample(5000))
              => /\ About(last_fetch.bonding_progress, 380)
                 /\ GoesOn
                 /\ shouldFire(<<500, 900>>, last_fetch.bonding_progress, {}) = {500}
        /\ (CycleEnded(t) /\ last_fetch.bonding_data = Sample(2100))
              => /\ About(last_fetch.bonding_progress, 997)
                 /\ GoesOn
                 /\ shouldFire(<<500, 900>>, last_fetch.bonding_progress,
                               {alert_key(500)}) = {900}

\* C20: the unsubscribe that leaves a token without subscribers leaves no
\* stored metrics for it, and after the subscribe that follows /list shows
\* the token as loading.
C20_LastUnsubscribeDiscardsMetrics ==
    [][\A t \in Tokens :
          /\ (Subscribers(t) # {} /\ Subscribers(t)' = {})
                => t \notin DOMAIN token_data'
          /\ (Subscribers(t) = {} /\ Subscribers(t)' # {})
                => ListEntry(t)' = Loading]_vars

\* C21: a send_message is only ever begun by the task that monitoring_tasks
\* holds for its token: a poller whose stop was requested, at whichever await
\* it was suspended, begins no further notification.
C21_NoAlertAfterStop ==
    [][\A id \in TaskIds, t \in Tokens :
          (Attempts(id) /\ tasks'[id].token = t) =>
              /\ t \in DOMAIN monitoring_tasks'
              /\ monitoring_tasks'[t] = id
              /\ last_stop' = NoStop]_vars

\* the last subscriber unsubscribed while the poller was suspended in a
\* send_message: the cancellation is pending and no task is sending
C21_Witness ==
    /\ last_stop.at = "send"
    /\ \E t \in Tokens : Cancelling(t) /\ t \notin DOMAIN monitoring_tasks
    /\ \A id \in TaskIds : tasks[id].pc # "send"

\* C22: under the event loop's fair scheduling, whenever a poller's stop has
\* been requested, at whichever await it was suspended, a cancelled poller of
\* that token eventually runs with the cancellation and ends.
C22_StopRequestedLeadsToStopped ==
    \A t \in Tokens :
        (last_stop.token = t /\ last_stop.at \notin {"", "stopped"}) ~>
            (last_stop = Stopped(t))

\* a stop was requested while the poller slept after an error
C22_Witness ==
    /\ last_stop.at = "backoff"
    /\ Cancelling(last_stop.token)

\* C23: every stored TokenMetrics is one cycle's work: its price and
\* progress are the ones computed from the two samples stored with it, a step
\* that changes it replaces all of it with what the cycle that just ended its
\* fetches computed, and /list shows the price and progress of that one dict.
C23_SnapshotFromOneCycle ==
    [][\A t \in Tokens :
          t \in DOMAIN token_data' =>
              LET m == token_data'[t]
              IN /\ m.price_usd = PriceOf(m.token_data)
                 /\ m.bonding_progress = ProgressOf(m.bonding_data)
                 /\ (t \notin DOMAIN token_data \/ token_data[t] # m) =>
                       /\ last_fetch'.token = t
                       /\ m = [price_usd |-> last_fetch'.price_usd,
                               bonding_progress |-> last_fetch'.bonding_progress,
                               last_update |-> clock',
                               token_data |-> last_fetch'.token_data,
                               bonding_data |-> last_fetch'.bonding_data]
                 /\ ListEntry(t)' = [kind |-> "data", price_usd |-> m.price_usd,
                                     bonding_progress |-> m.bonding_progress]]_vars

\* /list is suspended in its reply while the poller, which has overwritten
\* the metrics of an earlier cycle, is in the middle of a cycle
C23_Witness ==
    /\ cmd.kind = "list"
    /\ \E id \in TaskIds :
          /\ tasks[id].pc \in {"fetch_price", "fetch_bonding", "send"}
          /\ tasks[id].token \in DOMAIN token_data
          /\ token_data[tasks[id].token].last_update > 1
          /\ token_data[tasks[id].token].bonding_data # Absent
          /\ ListEntry(tasks[id].token).bonding_progress =
                ProgressOf(token_data[tasks[id].token].bonding_data)

\* the thresholds of a sequence that the value has reached
ReachedOf(thresholds, bonding_progress) ==
    {thresholds[k] : k \in {j \in 1..Len(thresholds) :
                               Reached(bonding_progress, thresholds[j])}}

\* C24: the keys that the bonding-phase pass has recorded for a pair do not
\* mark any threshold of the regular set as fired: evaluated for the same
\* pair and the stored progress, check_alerts fires every regular threshold
\* that the progress has reached.
C24_KeySpacesDistinct ==
    \A u \in Users, t \in Tokens :
        (Subscribed(u, t) /\ t \in DOMAIN token_data) =>
            shouldFire(BONDING_CURVE_ALERT_THRESHOLDS,
                       token_data[t].bonding_progress, FiredKeys(u, t))
                = ReachedOf(BONDING_CURVE_ALERT_THRESHOLDS,
                            token_data[t].bonding_progress)

\* C25: the discard of the subscription, the test for a remaining subscriber
\* and the stop of the poller are one step: the step in which a token's last
\* subscriber leaves is the step that drops its poller from monitoring_tasks
\* and cancels it, once, and no other step drops or cancels a poller.
C25_LastUnsubscribeStopsOnce ==
    [][\A t \in Tokens :
          /\ (\/ cancelled'[t] > cancelled[t]
              \/ (t \in DOMAIN monitoring_tasks /\ t \notin DOMAIN monitoring_tasks')) =>
                 /\ Subscribers(t) # {}
                 /\ Subscribers(t)' = {}
                 /\ cancelled'[t] <= cancelled[t] + 1
          /\ (Subscribers(t) # {} /\ Subscribers(t)' = {}
                 /\ t \in DOMAIN monitoring_tasks) =>
                 /\ t \notin DOMAIN monitoring_tasks'
                 /\ ~HasRunningPoller(t)'
                 /\ cancelled'[t] =
                       cancelled[t] + (IF HasRunningPoller(t) THEN 1 ELSE 0)]_vars

\* the two subscribers of a token have unsubscribed one after the other and
\* the second unsubscribe has just cancelled the one poller
C25_Witness ==
    /\ cmd.kind = "unmonitor"
    /\ Len(user_subscriptions) = 2
    /\ \E t \in Tokens :
          /\ last_stop.token = t
          /\ Subscribers(t) = {}
          /\ cancelled[t] = 1
          /\ t \notin DOMAIN monitoring_tasks
          /\ \A u \in Users : HasUser(u) /\ u \in DOMAIN user_alerts

\* C26: the bonding progress of every stored TokenMetrics is between 0 and
\* 100 percent.
C26_StoredProgressInRange ==
    \A t \in DOMAIN token_data :
        /\ token_data[t].bonding_progress >= 0
        /\ token_data[t].bonding_progress <= Progress100

\* the metrics stored for a token whose balance is under the reserve: the
\* progress is exactly 100
C26_Witness ==
    \E t \in DOMAIN token_data :
        /\ token_data[t].bonding_data.kind = "value"
        /\ token_data[t].bonding_data.v < RESERVED_TOKENS
        /\ token_data[t].bonding_progress = Progress100

\* C27: the tokens /list shows to a user are the ones the user subscribed to
\* and has not unsubscribed from since: a token enters the user's list only
\* by that user's /monitor of it, which always puts it there, leaves it only
\* by that user's /unmonitor of it, which always removes it, and no step
\* changes the lists of two users.
C27_ListIsOwnSubscriptions ==
    [][(cmd = NoCmd /\ cmd' # NoCmd) \/ user_subscriptions' # user_subscriptions =>
          \A u \in Users, t \in Tokens :
              LET before == ListTokens(u)
                  after == ListTokens(u)'
              IN /\ (t \notin before /\ t \in after) => MonitorStart(u, t)
                 /\ (t \in before /\ t \notin after) => UnmonitorStart(u, t)
                 /\ (cmd'.kind = "monitor" /\ MonitorStart(u, t)) => t \in after
                 /\ (cmd'.kind = "unmonitor" /\ UnmonitorStart(u, t)) => t \notin after
                 /\ after # before =>
                       \A o \in Users \ {u} : ListTokens(o)' = ListTokens(o)]_vars

\* /list is in flight; one user's list holds the token, the other user has
\* subscribed to it and unsubscribed and has an empty list
C27_Witness ==
    /\ cmd.kind = "list"
    /\ \E u \in Users, t \in Tokens :
          /\ ListTokens(u) = {t}
          /\ \E o \in Users \ {u} :
                HasUser(o) /\ ListTokens(o) = {} /\ prev_fired[o]

C29_NotifiedOnlyWhileSubscribed ==
    [][\A id \in TaskIds :
          Attempts(id) =>
              tasks'[id].token \in user_subscriptions'[tasks'[id].it_pos].v]_vars

\* C30: when a send_message of a pass returns or raises after a user without
\* an entry in user_subscriptions has subscribed, the pass is not aborted: it
\* goes on to a further send or ends normally in the steady-state sleep, and
\* when the user it was serving has no threshold left it serves the next
\* subscriber of the pass that has one.
C30_NewSubscriberDoesNotAbortPass ==
    [][\A id \in TaskIds :
          (/\ tasks[id].pc = "send"
           /\ Len(user_subscriptions) > tasks[id].it_len
           /\ \E ok \in BOOLEAN : SendDone(id, ok))
              => LET task == tasks[id]
                     keys == IF task.ua_live
                             THEN FiredKeys(SendUser(task), task.token)
                             ELSE task.ua_keys
                     k == NextFire(bonding_thresholds, task.th_idx + 1,
                                   task.bonding_progress, keys)
                     R == {p \in PendingAfter(task, task.it_pos) : p <= task.it_len}
                 IN /\ tasks'[id].pc \in {"send", "sleep"}
                    /\ (k = 0 /\ R # {}) => /\ tasks'[id].pc = "send"
                                            /\ tasks'[id].it_pos = Min(R)]_vars

\* C31: an /unmonitor of a token by one of several subscribers removes the
\* token from the caller's set and the pair's set of fired keys, and nothing
\* else: the other users' sets and fired keys, the poller's handle, the
\* poller's position and the pending cancellations are as they were, and a
\* poller that was running is running.
C31_UnsubscribeOfOneLeavesTheRest ==
    [][\A u \in Users, t \in Tokens :
          (/\ cmd = NoCmd /\ cmd'.kind = "unmonitor"
           /\ Subscribed(u, t) /\ Subscribers(t) \ {u} # {}
           /\ UnmonitorStart(u, t))
              => /\ ~Subscribed(u, t)'
                 /\ ~HasAlertSet(u, t)'
                 /\ SubsOf(u)' = SubsOf(u) \ {t}
                 /\ \A o \in Users \ {u} :
                       /\ HasUser(o)' = HasUser(o)
                       /\ HasUser(o) => SubsOf(o)' = SubsOf(o)
                       /\ (o \in DOMAIN user_alerts) = (o \in DOMAIN user_alerts')
                       /\ o \in DOMAIN user_alerts => user_alerts'[o] = user_alerts[o]
                 /\ monitoring_tasks' = monitoring_tasks
                 /\ cancelled' = cancelled
                 /\ token_data' = token_data
                 /\ \A id \in TaskIds : tasks'[id].pc = tasks[id].pc
                 /\ HasRunningPoller(t)' = HasRunningPoller(t)]_vars

\* one of two subscribers has just unsubscribed while the poller was sending:
\* the other is subscribed with fired keys and the poller is still sending
C31_Witness ==
    /\ cmd.kind = "unmonitor"
    /\ \E u \in Users, t \in Tokens :
          /\ HasUser(u) /\ ~Subscribed(u, t) /\ prev_fired[u]
          /\ \E o \in Users \ {u} : Subscribed(o, t) /\ FiredKeys(o, t) # {}
          /\ t \in DOMAIN monitoring_tasks
          /\ tasks[monitoring_tasks[t]].pc = "send"
          /\ ~tasks[monitoring_tasks[t]].ua_live
          /\ ~Cancelling(t)

\* C32: an /unmonitor by a user of an address the user is not subscribed to
\* answers that the user is not monitoring it and changes no subscription
\* set, no set of fired keys, no stored metrics, no handle and no task, and
\* requests no cancellation.
C32_UnsubscribeOfAbsentPairIsNoOp ==
    [][\A u \in Users, a \in Addresses :
          (/\ cmd = NoCmd /\ cmd'.kind = "unmonitor"
           /\ ~Subscribed(u, a)
           /\ UnmonitorStart(u, a))
              => /\ cmd'.pc = "reply_not_monitoring"
                 /\ UNCHANGED <<user_subscriptions, user_alerts, token_data,
                                monitoring_tasks, tasks, cancelled>>]_vars

\* a user who has an entry but is not subscribed to the token has been told
\* so, while the other user's subscription keeps the poller in its send
C32_Witness ==
    /\ cmd.kind = "unmonitor" /\ cmd.pc = "reply_not_monitoring"
    /\ \E u \in Users, t \in Tokens :
          /\ HasUser(u) /\ ~Subscribed(u, t)
          /\ Subscribers(t) # {}
          /\ t \in DOMAIN monitoring_tasks
          /\ tasks[monitoring_tasks[t]].pc = "send"
          /\ ~Cancelling(t)

\* the part of C33 about the registry alone: a subscribed pair has a set of
\* fired keys in user_alerts
SubscribedPairHasAlertSet ==
    \A u \in Users, t \in Tokens : Subscribed(u, t) => HasAlertSet(u, t)

\* C33: every subscribed pair has a set of fired keys in user_alerts, and a
\* pass that is evaluating the thresholds of a subscribed pair reads and
\* writes that set, not another set object.
C33_DeduplicationUsesRegistrySet ==
    /\ SubscribedPairHasAlertSet
    /\ \A id \in TaskIds, u \in Users, t \in Tokens :
          (/\ tasks[id].pc = "send" /\ tasks[id].token = t
           /\ SendUser(tasks[id]) = u
           /\ Subscribed(u, t))
              => tasks[id].ua_live

\* C34: a /monitor of a token by a user who is subscribed to it changes no
\* subscription set and no set of fired keys, starts no send and touches no
\* task or handle; and a send that a pass begins against the pair's set in
\* user_alerts is for a threshold whose key was not in that set.
C34_RepeatedSubscribeKeepsAlertState ==
    [][/\ \A u \in Users, t \in Tokens :
             (/\ cmd = NoCmd /\ cmd'.kind = "monitor"
              /\ Subscribed(u, t)
              /\ MonitorStart(u, t))
                 => /\ cmd'.again
                    /\ FiredKeys(u, t)' = FiredKeys(u, t)
                    /\ UNCHANGED <<user_subscriptions, user_alerts, tasks,
                                   monitoring_tasks, sent>>
       /\ \A id \in TaskIds, u \in Users, t \in Tokens :
             (/\ Attempts(id) /\ tasks'[id].ua_live
              /\ tasks'[id].token = t
              /\ user_subscriptions'[tasks'[id].it_pos].k = u)
                 => alert_key(bonding_thresholds[tasks'[id].th_idx])
                       \notin FiredKeys(u, t)]_vars

\* a user whose first two thresholds were sent has sent /monitor for the
\* token again: the keys are in the set, each threshold was sent once, and
\* the poller is asleep before its next cycle
C34_Witness ==
    \E u \in Users, t \in Tokens :
        /\ cmd.kind = "monitor" /\ cmd.user = u /\ cmd.addr = t /\ cmd.again
        /\ {alert_key(850), alert_key(900)} \subseteq FiredKeys(u, t)
        /\ sent[u][850] = 1 /\ sent[u][900] = 1
        /\ t \in DOMAIN monitoring_tasks
        /\ tasks[monitoring_tasks[t]].pc = "sleep"

====
